---- MODULE Spec2Model ----
(***************************************************************************)
(* View-function addressing/dispatch (frame-support procedural expansion)  *)
(* and the conversion of view-function metadata to portable form           *)
(* (sp-metadata-ir).                                                       *)
(*                                                                         *)
(* Spec      : pallets declare view functions, the pallet macro is         *)
(*             expanded (and the expansion compiled), view functions are   *)
(*             dispatched.                                                 *)
(* ConvSpec  : a view-function metadata document is converted to portable  *)
(*             form through a type registry, twice, each time from a       *)
(*             fresh registry.                                             *)
(* MetaSpec  : pallets, part of the runtime or not, are expanded; the ids   *)
(*             of their view functions are computed and their metadata     *)
(*             groups assembled, with or without metadata docs.            *)
(* ConcSpec  : two threads dispatch view functions concurrently.           *)
(***************************************************************************)
EXTENDS Integers, Sequences, FiniteSets, TLC

VARIABLES
    view_fns,   \* pallet -> the view functions it declares (def.view_functions)
    expanded,   \* pallet -> "pending" | "ok" | "error": outcome of the expansion
    call,       \* the last dispatch_view_function call and its outcome
    doc,        \* the metadata document in meta form (inline type references)
    pdoc,       \* the portable document under construction
    registry,   \* the type registry: interner and handle -> portable type
    stack,      \* the into_portable / register_type call stack
    cursor,     \* which part of the document is converted next
    returned,   \* every (cache key, handle) a register_type call has returned
    phase,      \* "idle" | "converting" | "finalized"
    table,      \* the finalized portable type table
    pass,       \* which conversion of the document this is (1 or 2)
    first,      \* the portable output of the first conversion
    attached,   \* pallet -> whether the runtime's PalletInfo knows the pallet
    no_metadata_docs,  \* whether the "no-metadata-docs" feature is enabled
    metadata,   \* pallet -> the outcome of its pallet_view_functions_metadata call
    id_call,    \* the last ViewFunction::id() call and its outcome
    threads,    \* thread -> the dispatch_view_function call it is running
    sinks       \* thread -> the output buffer its caller passed

vars == << view_fns, expanded, call, doc, pdoc, registry, stack, cursor,
           returned, phase, table, pass, first, attached, no_metadata_docs,
           metadata, id_call, threads, sinks >>

dispatchVars == << view_fns, expanded, call >>
convVars == << doc, pdoc, registry, stack, cursor, returned, phase, table,
               pass, first >>
metaVars == << attached, no_metadata_docs, metadata, id_call >>
concVars == << threads, sinks >>

(***************************************************************************)
(* Bounds of the model.                                                    *)
(***************************************************************************)
MaxViewFns == 2      \* view functions declared by one pallet
MaxInput == 2        \* bytes in a dispatch input buffer
MaxByte == 2         \* largest byte value (bytes are 0..MaxByte)

\* [u8; 16usize]: the length of a prefix and of a suffix.
IdHalfLen == 16

Bytes == 0 .. MaxByte
ByteMod == MaxByte + 1

SeqUpTo(S, n) == UNION { [1 .. k -> S] : k \in 0 .. n }

Bytes16(n) == [i \in 1 .. IdHalfLen |-> n]

(***************************************************************************)
(* The pallets of the runtime and the view functions they may declare.     *)
(***************************************************************************)
Pallets == {"A", "B"}

\* PalletInfo::name_hash of a pallet that is part of the runtime.
name_hash(p) == Bytes16(IF p = "A" THEN 10 ELSE 11)

ViewFunctionDefs ==
    { [name |-> "get", args |-> << >>, return_type |-> "u8",
       docs |-> << "get doc" >>],
      [name |-> "sub",
       args |-> << [name |-> "a", ty |-> "u8"], [name |-> "f", ty |-> "bool"] >>,
       return_type |-> "u8", docs |-> << "sub doc" >>],
      [name |-> "has", args |-> << [name |-> "x", ty |-> "u8"] >>,
       return_type |-> "bool", docs |-> << >>] }

\* The hash of the signature string "name(arg types) -> return type",
\* an opaque fixed-output hash: "get" and "has" stand for two signatures
\* whose hashes collide.
SignatureHash(view_fn) ==
    CASE view_fn.name = "get" -> 1
      [] view_fn.name = "sub" -> 2
      [] view_fn.name = "has" -> 1


\* The hashes of the signatures; 0 is the hash of no declared signature.
SignatureHashes == { SignatureHash(q) : q \in ViewFunctionDefs }

\* const SUFFIX: [u8; 16] = [ #( #view_function_id_suffix_bytes ),* ];
SUFFIX(view_fn) == Bytes16(SignatureHash(view_fn))

\* The body of the pallet's view function `name` (the pallet author's code).
PalletSalt(p) == IF p = "A" THEN 1 ELSE 2

PalletFn(p, name, args) ==
    CASE name = "get" -> PalletSalt(p)
      [] name = "sub" -> IF args[2] = 1 THEN (args[1] + PalletSalt(p)) % ByteMod
                         ELSE args[1]
      [] name = "has" -> IF args[1] = PalletSalt(p) THEN 1 ELSE 0

(***************************************************************************)
(* The codec boundary: Encode / Decode of the argument and return types.   *)
(***************************************************************************)
\* A u8 is one byte; a bool is one byte that is 0 or 1.
DecodeOk(ty, byte) == ty = "u8" \/ byte \in {0, 1}

Encode(ty, value) == << value >>

\* Decode the fields of a view-function struct from `input`, in order;
\* decode_all fails when a field fails or when bytes are left over.
RECURSIVE DecodeFields(_, _, _)
DecodeFields(tys, input, acc) ==
    IF tys = << >> THEN [ok |-> input = << >>, vals |-> acc]
    ELSE IF input = << >> \/ ~DecodeOk(Head(tys), Head(input))
         THEN [ok |-> FALSE, vals |-> << >>]
         ELSE DecodeFields(Tail(tys), Tail(input), Append(acc, Head(input)))

decode_all(view_fn, input) ==
    DecodeFields([i \in 1 .. Len(view_fn.args) |-> view_fn.args[i].ty], input, << >>)

(***************************************************************************)
(* The expansion of one pallet: ViewFunction impls and dispatch.           *)
(***************************************************************************)
NoId == [prefix |-> << >>, suffix |-> << >>]
ResOk == [kind |-> "Ok", id |-> NoId]
ResCodec == [kind |-> "Codec", id |-> NoId]
NotFound(id) == [kind |-> "NotFound", id |-> id]

Outcome(result, output, invoked) ==
    [result |-> result, output |-> output, invoked |-> invoked]

\* invoke naming another pallet's function.
invoke_other_pallet(p, view_fn, self) ==
    LET q == CHOOSE o \in Pallets : o # p IN
    [pallet |-> q, fn |-> view_fn.name, args |-> self,
     ret |-> PalletFn(q, view_fn.name, self)]

\* ViewFunction::invoke: destructure self and call the pallet function with
\* the arguments in declared order.
invoke(p, view_fn, self) ==
    [pallet |-> p, fn |-> view_fn.name, args |-> self,
     ret |-> PalletFn(p, view_fn.name, self)]

\* ViewFunction::execute: decode the struct from input, invoke, encode the
\* result to output.
execute(p, view_fn, input) ==
    LET decoded == decode_all(view_fn, input) IN
    IF ~decoded.ok THEN Outcome(ResCodec, << >>, << >>)
    ELSE LET inv == invoke(p, view_fn, decoded.vals) IN
         Outcome(ResOk, Encode(view_fn.return_type, inv.ret), << inv >>)

\* One match arm per view function, in declaration order; the first arm
\* whose pattern equals the scrutinee is taken (0: none).
MatchArm(fns, suffix) ==
    LET hits == { i \in 1 .. Len(fns) : SUFFIX(fns[i]) = suffix } IN
    IF hits = {} THEN 0 ELSE CHOOSE i \in hits : \A j \in hits : i <= j

\* NotFound built from the pallet's own prefix instead of id.clone().
dispatch_view_function_own_prefix(p, fns, id, input) ==
    LET arm == MatchArm(fns, id.suffix) IN
    IF arm = 0
    THEN Outcome(NotFound([prefix |-> name_hash(p), suffix |-> id.suffix]), << >>, << >>)
    ELSE execute(p, fns[arm], input)

\* Every arm executing the last view function's struct.
dispatch_view_function_last_arm(p, fns, id, input) ==
    LET arm == MatchArm(fns, id.suffix) IN
    IF arm = 0 THEN Outcome(NotFound(id), << >>, << >>)
    ELSE execute(p, fns[Len(fns)], input)

\* Every failure of an arm reported as NotFound.
dispatch_view_function_conflate(p, fns, id, input) ==
    LET arm == MatchArm(fns, id.suffix) IN
    IF arm = 0 THEN Outcome(NotFound(id), << >>, << >>)
    ELSE LET out == execute(p, fns[arm], input) IN
         IF out.result.kind = "Ok" THEN out
         ELSE Outcome(NotFound(id), out.output, out.invoked)

\* match id.suffix { SUFFIX_1 => execute_1, ..., _ => Err(NotFound(id.clone())) }
dispatch_view_function(p, fns, id, input) ==
    LET arm == MatchArm(fns, id.suffix) IN
    IF arm = 0 THEN Outcome(NotFound(id), << >>, << >>)
    ELSE execute(p, fns[arm], input)

\* The arms a preceding arm makes unreachable.
UnreachableArms(fns) ==
    { i \in 1 .. Len(fns) : \E j \in 1 .. (i - 1) : SUFFIX(fns[j]) = SUFFIX(fns[i]) }

\* The expansion without the deny attribute: the lint only warns.
impl_dispatch_view_function_warn(fns) == "ok"

\* #[deny(unreachable_patterns)]: an unreachable arm is a compile error.
impl_dispatch_view_function(fns) ==
    IF UnreachableArms(fns) # {} THEN "error" ELSE "ok"

(***************************************************************************)
(* Dispatch specification.                                                 *)
(***************************************************************************)
\* The lists of view functions a pallet can declare: distinct functions.
Declarations ==
    { s \in SeqUpTo(ViewFunctionDefs, MaxViewFns) :
        \A i, j \in 1 .. Len(s) : s[i].name = s[j].name => i = j }

NoCall == [pallet |-> "none", id |-> NoId, input |-> << >>,
           result |-> ResOk, output |-> << >>, invoked |-> << >>]

Ids == { [prefix |-> name_hash(p), suffix |-> Bytes16(h)] :
            p \in Pallets, h \in SignatureHashes \cup {0} }

Inputs == SeqUpTo(Bytes, MaxInput)

ConvIdle ==
    /\ doc = << >>
    /\ pdoc = << >>
    /\ registry = << >>
    /\ stack = << >>
    /\ cursor = [i |-> 0, j |-> 0]
    /\ returned = {}
    /\ phase = "idle"
    /\ table = << >>
    /\ pass = 0
    /\ first = << >>

\* No pallet_view_functions_metadata call, no ViewFunction::id() call.
NoGroup == [name |-> "", view_functions |-> << >>, docs |-> << >>]
NoMetadata == [status |-> "none", name |-> "", group |-> NoGroup]
NoIdCall == [pallet |-> "none", fn |-> 0, status |-> "none", id |-> NoId]

\* Every pallet is part of the runtime, built with metadata docs.
MetaIdle ==
    /\ attached = [p \in Pallets |-> TRUE]
    /\ no_metadata_docs = FALSE
    /\ metadata = [p \in Pallets |-> NoMetadata]
    /\ id_call = NoIdCall

\* The threads that call dispatch_view_function concurrently.
Threads == {"t1", "t2"}

NoThread == [pc |-> "idle", pallet |-> "none", id |-> NoId, input |-> << >>,
             arm |-> 0, self |-> << >>, result |-> ResOk, invoked |-> << >>]

ConcIdle ==
    /\ threads = [t \in Threads |-> NoThread]
    /\ sinks = [t \in Threads |-> << >>]

Init ==
    /\ view_fns \in [Pallets -> Declarations]
    /\ expanded = [p \in Pallets |-> "pending"]
    /\ call = NoCall
    /\ ConvIdle
    /\ MetaIdle
    /\ ConcIdle

\* expand_view_functions: the pallet's expansion, compiled.
Expand(p) ==
    /\ expanded[p] = "pending"
    /\ expanded' = [expanded EXCEPT ![p] = impl_dispatch_view_function(view_fns[p])]
    /\ UNCHANGED << view_fns, call >>
    /\ UNCHANGED convVars
    /\ UNCHANGED << metaVars, concVars >>

\* A caller dispatches `id` with `input` on pallet p, into an empty sink.
Dispatch(p, id, input) ==
    /\ expanded[p] = "ok"
    /\ call = NoCall
    /\ LET out == dispatch_view_function(p, view_fns[p], id, input) IN
       call' = [pallet |-> p, id |-> id, input |-> input,
                result |-> out.result, output |-> out.output,
                invoked |-> out.invoked]
    /\ UNCHANGED << view_fns, expanded >>
    /\ UNCHANGED convVars
    /\ UNCHANGED << metaVars, concVars >>

\* Any caller, any id, any input buffer, on any pallet that was built.
Call ==
    /\ call = NoCall
    /\ \E p \in { q \in Pallets : expanded[q] = "ok" }, id \in Ids, input \in Inputs :
         Dispatch(p, id, input)

\* The caller has taken the outcome of its call.
Return ==
    /\ call # NoCall
    /\ call' = NoCall
    /\ UNCHANGED << view_fns, expanded >>
    /\ UNCHANGED convVars
    /\ UNCHANGED << metaVars, concVars >>

Next ==
    \/ \E p \in Pallets : Expand(p)
    \/ Return
    \/ Call

Spec == Init /\ [][Next]_vars

(***************************************************************************)
(* Metadata IR: type references, the type registry, into_portable.         *)
(***************************************************************************)
MaxQueries == 2      \* queries of one query interface

\* pub id: [u8; 32]
IdLen == 32

Bytes32(n) == [i \in 1 .. IdLen |-> n]

\* A type reference: in meta form the inline producer of the type with
\* cache key `key`; in portable form the handle `id` into the type table.
MetaType(k) == [form |-> "meta", key |-> k, id |-> -1]
Portable(h) == [form |-> "portable", key |-> "", id |-> h]

\* The types of the runtime and the types of their fields, in field order:
\* List contains itself, Ping and Pong contain each other.
TypeKeys == {"Runtime", "u8", "bool", "Pair", "List", "Ping", "Pong", "Wrap"}

type_info(k) ==
    CASE k = "Pair" -> << "u8", "u8" >>
      [] k = "List" -> << "u8", "List" >>
      [] k = "Ping" -> << "Pong" >>
      [] k = "Pong" -> << "Ping", "bool" >>
      [] k = "Wrap" -> << "List", "Pair" >>
      [] OTHER -> << >>

\* Registry::new
NewRegistry == [type_table |-> << >>, types |-> [h \in {} |-> << >>]]

\* An interner that never finds a key.
Interned_never(reg, k) == FALSE

\* Whether the interner already holds the cache key (registered or in flight).
Interned(reg, k) == \E i \in 1 .. Len(reg.type_table) : reg.type_table[i] = k

\* A lookup that treats an in-flight key as new.
SymbolOf_next(reg, k) == Len(reg.type_table)

\* The handle the interner gave the cache key: its position, from 0.
SymbolOf(reg, k) == (CHOOSE i \in 1 .. Len(reg.type_table) : reg.type_table[i] = k) - 1

\* intern putting the new key first: the keys interned before move up.
intern_front(reg, k) == [reg EXCEPT !.type_table = << k >> \o @]

\* The interner takes a new key: its handle is the next integer.
intern(reg, k) == [reg EXCEPT !.type_table = Append(@, k)]

\* The portable description of a type is stored at its handle.
insert_type(reg, sym, fields) == [reg EXCEPT !.types = @ @@ (sym :> fields)]

\* PortableRegistry::from(registry): the descriptions in handle order.
finalize(reg) ==
    [h \in 1 .. Len(reg.type_table) |-> [id |-> h - 1, fields |-> reg.types[h - 1]]]

\* QueryArgMetadataIR::into_portable
QueryArgMetadataIR_into_portable(self, ty) == [name |-> self.name, ty |-> ty]

\* The args visited in an order that differs from one conversion to the next.
ViewFunctionMetadataIR_refs_unstable(self) ==
    IF pass = 2
    THEN [i \in 1 .. Len(self.args) |-> self.args[Len(self.args) + 1 - i].ty.key]
         \o << self.output.key >>
    ELSE [i \in 1 .. Len(self.args) |-> self.args[i].ty.key] \o << self.output.key >>

\* The type references of a view function, in the order into_portable
\* registers them: the args in order, then the output.
ViewFunctionMetadataIR_refs(self) ==
    [i \in 1 .. Len(self.args) |-> self.args[i].ty.key] \o << self.output.key >>

\* into_portable that leaves the output as it was.
ViewFunctionMetadataIR_into_portable_inline_output(self, handles) ==
    [name |-> self.name,
     id |-> self.id,
     args |-> [i \in 1 .. Len(self.args) |->
                 QueryArgMetadataIR_into_portable(self.args[i], Portable(handles[i]))],
     output |-> self.output,
     docs |-> self.docs]

\* into_portable that gives every arg the handle of the first one.
ViewFunctionMetadataIR_into_portable_first_handle(self, handles) ==
    [name |-> self.name,
     id |-> self.id,
     args |-> [i \in 1 .. Len(self.args) |->
                 QueryArgMetadataIR_into_portable(self.args[i], Portable(handles[1]))],
     output |-> Portable(handles[Len(self.args) + 1]),
     docs |-> self.docs]

\* ViewFunctionMetadataIR::into_portable, given the handles register_type
\* returned for its type references.
ViewFunctionMetadataIR_into_portable(self, handles) ==
    [name |-> self.name,
     id |-> self.id,
     args |-> [i \in 1 .. Len(self.args) |->
                 QueryArgMetadataIR_into_portable(self.args[i], Portable(handles[i]))],
     output |-> Portable(handles[Len(self.args) + 1]),
     docs |-> self.docs]

\* ViewFunctionsInterfaceIR::into_portable, given its converted queries.
ViewFunctionsInterfaceIR_into_portable(self, queries) ==
    [name |-> self.name, queries |-> queries, docs |-> self.docs]

\* The view functions a query interface may list (meta form).
QueryCatalog ==
    { [name |-> "get", id |-> Bytes32(1), args |-> << >>,
       output |-> MetaType("u8"), docs |-> << "get doc" >>],
      [name |-> "pair", id |-> Bytes32(2),
       args |-> << [name |-> "a", ty |-> MetaType("Pair")],
                   [name |-> "l", ty |-> MetaType("List")] >>,
       output |-> MetaType("Pair"), docs |-> << >>],
      [name |-> "ping", id |-> Bytes32(3),
       args |-> << [name |-> "p", ty |-> MetaType("Pong")] >>,
       output |-> MetaType("Wrap"), docs |-> << "ping doc", "more" >>] }

InterfaceNames == << "System", "Balances" >>

\* The documents converted: one interface per name, each with up to
\* MaxQueries view functions.
Documents ==
    { [ty |-> MetaType("Runtime"),
       interfaces |-> [i \in 1 .. Len(InterfaceNames) |->
                         [name |-> InterfaceNames[i], queries |-> qs[i],
                          docs |-> << InterfaceNames[i] >>]]] :
        qs \in [1 .. Len(InterfaceNames) -> SeqUpTo(QueryCatalog, MaxQueries)] }

(***************************************************************************)
(* Conversion specification: the converter as a call stack.                *)
(***************************************************************************)
Frame(kind, key, sym, refs) ==
    [kind |-> kind, key |-> key, sym |-> sym, refs |-> refs, acc |-> << >>]

Top == stack[Len(stack)]
Pop == SubSeq(stack, 1, Len(stack) - 1)

\* The caller's frame receives the handle a register_type call returned.
Deliver(stk, h) == [stk EXCEPT ![Len(stk)].acc = Append(@, h)]

Pending == stack # << >> /\ Len(Top.acc) < Len(Top.refs)
Complete == stack # << >> /\ Len(Top.acc) = Len(Top.refs)
NextRef == Top.refs[Len(Top.acc) + 1]

EmptyPortable == [ty |-> MetaType("Runtime"), interfaces |-> << >>, queries |-> << >>]
NoOutput == [doc |-> EmptyPortable, table |-> << >>]

DispatchIdle ==
    /\ view_fns = [p \in Pallets |-> << >>]
    /\ expanded = [p \in Pallets |-> "pending"]
    /\ call = NoCall

ConvInit ==
    /\ DispatchIdle
    /\ MetaIdle
    /\ ConcIdle
    /\ doc \in Documents
    /\ pdoc = EmptyPortable
    /\ registry = NewRegistry
    /\ stack = << >>
    /\ cursor = [i |-> 0, j |-> 0]
    /\ returned = {}
    /\ phase = "idle"
    /\ table = << >>
    /\ pass = 1
    /\ first = NoOutput

\* The conversion starts with the runtime-wide record: its own type first.
BeginDocument ==
    /\ phase = "idle"
    /\ phase' = "converting"
    /\ pdoc' = [EmptyPortable EXCEPT !.ty = doc.ty]
    /\ stack' = << Frame("root", "", -1, << doc.ty.key >>) >>
    /\ UNCHANGED << doc, registry, cursor, returned, table, pass, first >>
    /\ UNCHANGED dispatchVars
    /\ UNCHANGED << metaVars, concVars >>

\* register_type of a cache key the interner does not hold: the key gets
\* the next handle, then its description is converted.
RegisterNew ==
    /\ phase = "converting"
    /\ Pending
    /\ ~Interned(registry, NextRef)
    /\ registry' = intern(registry, NextRef)
    /\ stack' = Append(stack, Frame("type", NextRef, Len(registry.type_table),
                                    type_info(NextRef)))
    /\ UNCHANGED << doc, pdoc, cursor, returned, phase, table, pass, first >>
    /\ UNCHANGED dispatchVars
    /\ UNCHANGED << metaVars, concVars >>

\* register_type of a cache key the interner holds: its handle is returned.
RegisterKnown ==
    /\ phase = "converting"
    /\ Pending
    /\ Interned(registry, NextRef)
    /\ LET h == SymbolOf(registry, NextRef) IN
       /\ stack' = Deliver(stack, h)
       /\ returned' = returned \cup { << NextRef, h >> }
    /\ UNCHANGED << doc, pdoc, registry, cursor, phase, table, pass, first >>
    /\ UNCHANGED dispatchVars
    /\ UNCHANGED << metaVars, concVars >>

\* The description of a new type is complete: it is stored at the handle
\* and register_type returns the handle.
ReturnType ==
    /\ phase = "converting"
    /\ Complete
    /\ Top.kind = "type"
    /\ registry' = insert_type(registry, Top.sym, Top.acc)
    /\ stack' = Deliver(Pop, Top.sym)
    /\ returned' = returned \cup { << Top.key, Top.sym >> }
    /\ UNCHANGED << doc, pdoc, cursor, phase, table, pass, first >>
    /\ UNCHANGED dispatchVars
    /\ UNCHANGED << metaVars, concVars >>

\* The runtime-wide record's own type is registered; its interfaces follow.
FinishRoot ==
    /\ phase = "converting"
    /\ Complete
    /\ Top.kind = "root"
    /\ pdoc' = [pdoc EXCEPT !.ty = Portable(Top.acc[1])]
    /\ stack' = << >>
    /\ cursor' = [i |-> 1, j |-> 0]
    /\ UNCHANGED << doc, registry, returned, phase, table, pass, first >>
    /\ UNCHANGED dispatchVars
    /\ UNCHANGED << metaVars, concVars >>

InInterface ==
    /\ phase = "converting"
    /\ stack = << >>
    /\ cursor.i \in 1 .. Len(doc.interfaces)

\* map_into_portable(self.queries): the next view function is converted.
BeginQuery ==
    /\ InInterface
    /\ cursor.j < Len(doc.interfaces[cursor.i].queries)
    /\ stack' = << Frame("query", "", -1,
                         ViewFunctionMetadataIR_refs(
                             doc.interfaces[cursor.i].queries[cursor.j + 1])) >>
    /\ UNCHANGED << doc, pdoc, registry, cursor, returned, phase, table, pass, first >>
    /\ UNCHANGED dispatchVars
    /\ UNCHANGED << metaVars, concVars >>

FinishQuery ==
    /\ phase = "converting"
    /\ Complete
    /\ Top.kind = "query"
    /\ pdoc' = [pdoc EXCEPT !.queries =
                  Append(@, ViewFunctionMetadataIR_into_portable(
                                doc.interfaces[cursor.i].queries[cursor.j + 1], Top.acc))]
    /\ stack' = << >>
    /\ cursor' = [cursor EXCEPT !.j = @ + 1]
    /\ UNCHANGED << doc, registry, returned, phase, table, pass, first >>
    /\ UNCHANGED dispatchVars
    /\ UNCHANGED << metaVars, concVars >>

\* All view functions of the interface are converted: the portable
\* interface is built.
EndInterface ==
    /\ InInterface
    /\ cursor.j = Len(doc.interfaces[cursor.i].queries)
    /\ pdoc' = [pdoc EXCEPT
                  !.interfaces = Append(@, ViewFunctionsInterfaceIR_into_portable(
                                               doc.interfaces[cursor.i], pdoc.queries)),
                  !.queries = << >>]
    /\ cursor' = [i |-> cursor.i + 1, j |-> 0]
    /\ UNCHANGED << doc, registry, stack, returned, phase, table, pass, first >>
    /\ UNCHANGED dispatchVars
    /\ UNCHANGED << metaVars, concVars >>

\* The document is converted: the registry is finalized into the table.
Finalize ==
    /\ phase = "converting"
    /\ stack = << >>
    /\ cursor.i = Len(doc.interfaces) + 1
    /\ phase' = "finalized"
    /\ table' = finalize(registry)
    /\ UNCHANGED << doc, pdoc, registry, stack, cursor, returned, pass, first >>
    /\ UNCHANGED dispatchVars
    /\ UNCHANGED << metaVars, concVars >>

\* The same document is converted again, from a fresh registry.
Restart ==
    /\ phase = "finalized"
    /\ pass = 1
    /\ first' = [doc |-> pdoc, table |-> table]
    /\ pass' = 2
    /\ pdoc' = EmptyPortable
    /\ registry' = NewRegistry
    /\ cursor' = [i |-> 0, j |-> 0]
    /\ returned' = {}
    /\ phase' = "idle"
    /\ table' = << >>
    /\ UNCHANGED << doc, stack >>
    /\ UNCHANGED dispatchVars
    /\ UNCHANGED << metaVars, concVars >>

ConvNext ==
    \/ BeginDocument
    \/ RegisterNew
    \/ RegisterKnown
    \/ ReturnType
    \/ FinishRoot
    \/ BeginQuery
    \/ FinishQuery
    \/ EndInterface
    \/ Finalize
    \/ Restart

ConvSpec == ConvInit /\ [][ConvNext]_vars

\* The conversion is one synchronous call: it runs until it returns.
FairConvSpec == ConvSpec /\ WF_vars(ConvNext)

(***************************************************************************)
(* View-function ids and the metadata of a pallet's view functions.        *)
(***************************************************************************)
\* A call either returns a value or panics (the panic aborts the caller).
Returned(v) == [ok |-> TRUE, value |-> v]
Panicked == [ok |-> FALSE, value |-> << >>]

\* prefix with unwrap_or_default in place of expect.
ViewFunctionIdPrefix_prefix_or_default(att, p) ==
    Returned(IF att[p] THEN name_hash(p) ELSE Bytes16(0))

\* ViewFunctionIdPrefix::prefix: PalletInfo::name_hash::<Pallet>() is None
\* for a pallet the runtime does not hold, and .expect(..) panics on None.
ViewFunctionIdPrefix_prefix(att, p) ==
    IF att[p] THEN Returned(name_hash(p)) ELSE Panicked

\* id with the two halves exchanged.
ViewFunction_id_swapped(att, p, view_fn) ==
    LET pre == ViewFunctionIdPrefix_prefix(att, p) IN
    IF ~pre.ok THEN Panicked
    ELSE Returned([prefix |-> SUFFIX(view_fn), suffix |-> pre.value])

\* ViewFunction::id: ViewFunctionId { prefix: Pallet::prefix(), suffix: SUFFIX }
ViewFunction_id(att, p, view_fn) ==
    LET pre == ViewFunctionIdPrefix_prefix(att, p) IN
    IF ~pre.ok THEN Panicked
    ELSE Returned([prefix |-> pre.value, suffix |-> SUFFIX(view_fn)])

\* ViewFunctionId into [u8; 32]: the prefix bytes, then the suffix bytes.
ViewFunctionId_into(id) == id.prefix \o id.suffix

\* The [u8; 32] read back as a ViewFunctionId.
ViewFunctionId_from(bytes) ==
    [prefix |-> SubSeq(bytes, 1, IdHalfLen),
     suffix |-> SubSeq(bytes, IdHalfLen + 1, IdLen)]

\* ViewFunctionArgMetadataIR { name: stringify!(pat), ty: meta_type::<ty>() }
ViewFunctionArgMetadataIR(arg) == [name |-> arg.name, ty |-> MetaType(arg.ty)]

\* The feature erasing the argument names as well.
ViewFunctionMetadataIR_no_names(nd, view_fn, id) ==
    [name |-> view_fn.name,
     id |-> ViewFunctionId_into(id),
     args |-> [i \in 1 .. Len(view_fn.args) |->
                 [name |-> IF nd THEN "" ELSE view_fn.args[i].name,
                  ty |-> MetaType(view_fn.args[i].ty)]],
     output |-> MetaType(view_fn.return_type),
     docs |-> IF nd THEN << >> ELSE view_fn.docs]

\* ViewFunctionMetadataIR { name, id: id().into(), args, output, docs }, the
\* docs empty under the "no-metadata-docs" feature.
ViewFunctionMetadataIR(nd, view_fn, id) ==
    [name |-> view_fn.name,
     id |-> ViewFunctionId_into(id),
     args |-> [i \in 1 .. Len(view_fn.args) |->
                 ViewFunctionArgMetadataIR(view_fn.args[i])],
     output |-> MetaType(view_fn.return_type),
     docs |-> IF nd THEN << >> ELSE view_fn.docs]

\* expand_view_function: the struct of a view function, one field per
\* argument, its doc attributes, and the scale_info capture_docs setting.
expand_view_function(nd, view_fn) ==
    [name |-> view_fn.name, args |-> view_fn.args,
     return_type |-> view_fn.return_type, docs |-> view_fn.docs,
     capture_docs |-> IF nd THEN "never" ELSE "always"]

\* The docs of the pallet's view-functions impl block.
impl_docs(p) == IF p = "A" THEN << "A views" >> ELSE << >>

\* The group listing the first view function only.
pallet_view_functions_metadata_first_only(att, nd, p, fns, name) ==
    LET ids == [i \in 1 .. Len(fns) |-> ViewFunction_id(att, p, fns[i])] IN
    IF \E i \in 1 .. Len(fns) : ~ids[i].ok THEN Panicked
    ELSE Returned(
           [name |-> name,
            view_functions |->
                [i \in 1 .. (IF Len(fns) > 1 THEN 1 ELSE Len(fns)) |->
                    ViewFunctionMetadataIR(nd, fns[i], ids[i].value)],
            docs |-> IF nd THEN << >> ELSE impl_docs(p)])

\* pallet_view_functions_metadata(name): ViewFunctionGroupIR { name,
\* view_functions: vec![one entry per view function, in declaration order],
\* docs }.  Each entry calls ViewFunction::id(), whose panic aborts the call.
pallet_view_functions_metadata(att, nd, p, fns, name) ==
    LET ids == [i \in 1 .. Len(fns) |-> ViewFunction_id(att, p, fns[i])] IN
    IF \E i \in 1 .. Len(fns) : ~ids[i].ok THEN Panicked
    ELSE Returned(
           [name |-> name,
            view_functions |->
                [i \in 1 .. Len(fns) |->
                    ViewFunctionMetadataIR(nd, fns[i], ids[i].value)],
            docs |-> IF nd THEN << >> ELSE impl_docs(p)])

(***************************************************************************)
(* Metadata specification: pallets, attached to the runtime or not, are    *)
(* expanded with or without the "no-metadata-docs" feature; ids are        *)
(* computed and metadata groups are assembled.                             *)
(***************************************************************************)
\* The names a caller passes to pallet_view_functions_metadata.
GroupNames == { InterfaceNames[i] : i \in 1 .. Len(InterfaceNames) }

MetaInit ==
    /\ view_fns \in [Pallets -> Declarations]
    /\ expanded = [p \in Pallets |-> "pending"]
    /\ call = NoCall
    /\ ConvIdle
    /\ attached \in [Pallets -> BOOLEAN]
    /\ no_metadata_docs \in BOOLEAN
    /\ metadata = [p \in Pallets |-> NoMetadata]
    /\ id_call = NoIdCall
    /\ ConcIdle

\* A caller assembles the metadata group of pallet p under `name`.
BuildMetadata(p, name) ==
    /\ expanded[p] = "ok"
    /\ metadata[p].status = "none"
    /\ LET out == pallet_view_functions_metadata(attached, no_metadata_docs, p,
                                                 view_fns[p], name) IN
       metadata' = [metadata EXCEPT ![p] =
                      IF out.ok
                      THEN [status |-> "built", name |-> name, group |-> out.value]
                      ELSE [status |-> "aborted", name |-> name, group |-> NoGroup]]
    /\ UNCHANGED << attached, no_metadata_docs, id_call >>
    /\ UNCHANGED << dispatchVars, convVars, concVars >>

\* A caller computes the id of the k-th view function of pallet p.
ComputeId(p, k) ==
    /\ expanded[p] = "ok"
    /\ id_call = NoIdCall
    /\ k \in 1 .. Len(view_fns[p])
    /\ LET out == ViewFunction_id(attached, p, view_fns[p][k]) IN
       id_call' = IF out.ok
                  THEN [pallet |-> p, fn |-> k, status |-> "returned", id |-> out.value]
                  ELSE [pallet |-> p, fn |-> k, status |-> "aborted", id |-> NoId]
    /\ UNCHANGED << attached, no_metadata_docs, metadata >>
    /\ UNCHANGED << dispatchVars, convVars, concVars >>

MetaNext ==
    \/ \E p \in Pallets : Expand(p)
    \/ \E p \in Pallets, name \in GroupNames : BuildMetadata(p, name)
    \/ \E p \in Pallets, k \in 1 .. MaxViewFns : ComputeId(p, k)

MetaSpec == MetaInit /\ [][MetaNext]_vars

(***************************************************************************)
(* Concurrent dispatch: each thread runs one dispatch_view_function call   *)
(* on a built pallet, step by step, interleaved with the other threads.    *)
(***************************************************************************)
\* Input buffers a caller passes: the arguments of get, of has and of sub,
\* a corrupt bool, and (for has and sub) truncated or over-long buffers.
CallerInputs == { << >>, << 1 >>, << 2, 1 >>, << 1, 2 >> }

\* Every call writing to the output buffer of the first thread.
SinkOf_shared(t) == "t1"

\* output: &mut O: a call writes to the buffer its own caller passed.
SinkOf(t) == t

\* The declarations whose expansion compiles.
Compiling == { d \in Declarations : impl_dispatch_view_function(d) = "ok" }

ConcInit ==
    /\ view_fns \in [Pallets -> Compiling]
    /\ expanded = [p \in Pallets |-> "ok"]
    /\ call = NoCall
    /\ ConvIdle
    /\ MetaIdle
    /\ ConcIdle

\* The ids in flight on the other threads.
InFlight(t) == { threads[o].id : o \in { u \in Threads \ {t} : threads[u].pc # "idle" } }

\* Thread t calls dispatch_view_function of pallet p with an id of that
\* pallet that no other thread is dispatching, an input and an empty output.
Begin(t, p, id, input) ==
    /\ threads[t].pc = "idle"
    /\ id.prefix = name_hash(p)
    /\ id \notin InFlight(t)
    /\ threads' = [threads EXCEPT ![t] =
                     [NoThread EXCEPT !.pc = "match", !.pallet = p, !.id = id,
                                      !.input = input]]
    /\ sinks' = [sinks EXCEPT ![SinkOf(t)] = << >>]
    /\ UNCHANGED << dispatchVars, convVars, metaVars >>

\* match id.suffix: the arm of the suffix, or the wildcard arm.
Match(t) ==
    /\ threads[t].pc = "match"
    /\ LET arm == MatchArm(view_fns[threads[t].pallet], threads[t].id.suffix) IN
       threads' = [threads EXCEPT ![t] =
                     IF arm = 0
                     THEN [@ EXCEPT !.pc = "done", !.result = NotFound(threads[t].id)]
                     ELSE [@ EXCEPT !.pc = "decode", !.arm = arm]]
    /\ UNCHANGED sinks
    /\ UNCHANGED << dispatchVars, convVars, metaVars >>

\* execute: the struct of the arm's view function is decoded from input.
Decode(t) ==
    /\ threads[t].pc = "decode"
    /\ LET view_fn == view_fns[threads[t].pallet][threads[t].arm]
           decoded == decode_all(view_fn, threads[t].input)
       IN threads' = [threads EXCEPT ![t] =
                        IF decoded.ok
                        THEN [@ EXCEPT !.pc = "invoke", !.self = decoded.vals]
                        ELSE [@ EXCEPT !.pc = "done", !.result = ResCodec]]
    /\ UNCHANGED sinks
    /\ UNCHANGED << dispatchVars, convVars, metaVars >>

\* execute: the view function is invoked and its result encoded to output.
Invoke(t) ==
    /\ threads[t].pc = "invoke"
    /\ LET p == threads[t].pallet
           view_fn == view_fns[p][threads[t].arm]
           inv == invoke(p, view_fn, threads[t].self)
       IN /\ threads' = [threads EXCEPT ![t] =
                           [@ EXCEPT !.pc = "done", !.result = ResOk,
                                     !.invoked = << inv >>]]
          /\ sinks' = [sinks EXCEPT ![SinkOf(t)] =
                         @ \o Encode(view_fn.return_type, inv.ret)]
    /\ UNCHANGED << dispatchVars, convVars, metaVars >>

\* The caller of thread t has taken the outcome of the call.
Finish(t) ==
    /\ threads[t].pc = "done"
    /\ threads' = [threads EXCEPT ![t] = NoThread]
    /\ sinks' = [sinks EXCEPT ![SinkOf(t)] = << >>]
    /\ UNCHANGED << dispatchVars, convVars, metaVars >>

\* Any thread begins a call, with any id of the pallet and any input.
BeginAny ==
    \E t \in { u \in Threads : threads[u].pc = "idle" } :
      \E p \in Pallets, s \in SignatureHashes \cup {0}, input \in CallerInputs :
        Begin(t, p, [prefix |-> name_hash(p), suffix |-> Bytes16(s)], input)

ConcNext ==
    \/ BeginAny
    \/ \E t \in Threads : Match(t)
    \/ \E t \in Threads : Decode(t)
    \/ \E t \in Threads : Invoke(t)
    \/ \E t \in Threads : Finish(t)

ConcSpec == ConcInit /\ [][ConcNext]_vars

(***************************************************************************)
(* Claims about dispatch (checked under Spec).                             *)
(***************************************************************************)
Declared(p) == { view_fns[p][i] : i \in 1 .. Len(view_fns[p]) }

\* An input buffer that is exactly the encoding of q's arguments.
WellFormed(q, input) ==
    /\ Len(input) = Len(q.args)
    /\ \A k \in 1 .. Len(q.args) : q.args[k].ty = "bool" => input[k] \in {0, 1}

Called == call # NoCall

\* C1: dispatching an id whose suffix is the suffix of none of the pallet's
\* view functions returns NotFound carrying that id (prefix and suffix),
\* invokes no body and writes nothing to output, whatever the input.
C1_NotFoundCarriesId ==
    (Called /\ \A q \in Declared(call.pallet) : SUFFIX(q) # call.id.suffix)
    => /\ call.result.kind = "NotFound"
       /\ call.result.id.prefix = call.id.prefix
       /\ call.result.id.suffix = call.id.suffix
       /\ call.invoked = << >>
       /\ call.output = << >>

C1_Witness ==
    /\ Called
    /\ Len(view_fns[call.pallet]) > 0
    /\ \A q \in Declared(call.pallet) : SUFFIX(q) # call.id.suffix
    /\ call.id.prefix # name_hash(call.pallet)
    /\ call.input # << >>
    /\ call.result.kind = "NotFound"

\* C2: dispatching an id whose suffix is that of a declared view function q
\* with a well-formed input invokes exactly q's body, once, with the decoded
\* arguments in declared order, writes the encoding of q's result to output
\* and returns Ok.
C2_DispatchInvokesQuery ==
    Called =>
      \A q \in Declared(call.pallet) :
        (SUFFIX(q) = call.id.suffix /\ WellFormed(q, call.input))
        => /\ call.result = ResOk
           /\ call.invoked =
                << [pallet |-> call.pallet, fn |-> q.name, args |-> call.input,
                    ret |-> PalletFn(call.pallet, q.name, call.input)] >>
           /\ call.output =
                Encode(q.return_type, PalletFn(call.pallet, q.name, call.input))

C2_Witness ==
    /\ Called
    /\ Len(view_fns[call.pallet]) = 2
    /\ view_fns[call.pallet][1].name = "sub"
    /\ call.id.suffix = SUFFIX(view_fns[call.pallet][1])
    /\ call.input = << 2, 1 >>
    /\ call.result = ResOk
    /\ call.output = << (2 + PalletSalt(call.pallet)) % ByteMod >>

\* Both pallets declare a view function with the signature hashed into the
\* suffix of the dispatched id, and the id carries the other pallet's prefix.
ForeignIdOfSharedSignature ==
    /\ Called
    /\ \E o \in Pallets \ {call.pallet} :
         /\ call.id.prefix = name_hash(o)
         /\ \E q \in Declared(call.pallet) :
              /\ q \in Declared(o)
              /\ SUFFIX(q) = call.id.suffix

\* C3 as stated: dispatching on a pallet an id that carries the other
\* pallet's prefix does not invoke the pallet's own view function.
C3_Original_ForeignPrefixNotInvoked ==
    ForeignIdOfSharedSignature => call.invoked = << >>

\* C3 amended: a pallet's dispatcher resolves the suffix only.  It never
\* invokes a body of another pallet, and an id that carries the other
\* pallet's prefix and the suffix of one of the pallet's own view functions
\* is routed to that view function when the input is well-formed.
C3_DispatcherResolvesSuffixOnly ==
    Called =>
      /\ \A k \in 1 .. Len(call.invoked) : call.invoked[k].pallet = call.pallet
      /\ \A q \in Declared(call.pallet) :
           (/\ call.id.prefix # name_hash(call.pallet)
            /\ SUFFIX(q) = call.id.suffix
            /\ WellFormed(q, call.input))
           => /\ Len(call.invoked) = 1
              /\ call.invoked[1].fn = q.name

C3_Witness ==
    /\ ForeignIdOfSharedSignature
    /\ Len(call.invoked) = 1
    /\ call.invoked[1].pallet = call.pallet
    /\ call.result = ResOk

\* An input buffer that ends before the last argument, or holds a byte that
\* is no value of its argument's type.
Truncated(q, input) == Len(input) < Len(q.args)
Corrupt(q, input) ==
    \E k \in 1 .. Len(q.args) :
      k <= Len(input) /\ q.args[k].ty = "bool" /\ input[k] \notin {0, 1}

\* C4: dispatching the id of a declared view function with a truncated or
\* corrupt input returns the codec error, never NotFound, invokes no body
\* and writes no byte to output.
C4_DecodeErrorDistinct ==
    Called =>
      \A q \in Declared(call.pallet) :
        (SUFFIX(q) = call.id.suffix
           /\ (Truncated(q, call.input) \/ Corrupt(q, call.input)))
        => /\ call.result.kind = "Codec"
           /\ call.result.kind # "NotFound"
           /\ call.invoked = << >>
           /\ call.output = << >>

\* A corrupt bool in a buffer of the right length.
C4_Witness ==
    /\ Called
    /\ \E q \in Declared(call.pallet) :
         /\ q.name = "sub"
         /\ SUFFIX(q) = call.id.suffix
    /\ Len(call.input) = 2
    /\ call.input[2] = 2
    /\ call.result.kind = "Codec"

DuplicateSuffix(fns) ==
    \E i, j \in 1 .. Len(fns) : i # j /\ SUFFIX(fns[i]) = SUFFIX(fns[j])

\* C5: a list of view functions in which two share a suffix is rejected when
\* the pallet is expanded; in every dispatcher that exists no two arms share
\* a suffix, and each view function is the one its own suffix is routed to.
C5_NoSharedSuffix ==
    \A p \in Pallets :
      /\ (expanded[p] # "pending" /\ DuplicateSuffix(view_fns[p]))
            => expanded[p] = "error"
      /\ expanded[p] = "ok" =>
           /\ ~DuplicateSuffix(view_fns[p])
           /\ \A i \in 1 .. Len(view_fns[p]) :
                MatchArm(view_fns[p], SUFFIX(view_fns[p][i])) = i
           /\ (Called /\ call.pallet = p) =>
                \A q \in Declared(p) :
                  (SUFFIX(q) = call.id.suffix /\ call.invoked # << >>)
                  => call.invoked[1].fn = q.name

C5_Witness ==
    /\ expanded["A"] = "error"
    /\ DuplicateSuffix(view_fns["A"])
    /\ expanded["B"] = "ok"
    /\ Len(view_fns["B"]) = 2
    /\ Called
    /\ call.id.suffix = SUFFIX(view_fns["B"][2])
    /\ call.invoked # << >>

(***************************************************************************)
(* Claims about the conversion (checked under ConvSpec / FairConvSpec).    *)
(***************************************************************************)
Range(f) == { f[i] : i \in DOMAIN f }

\* The cache key that holds handle h.
KeyOf(h) == registry.type_table[h + 1]
ValidHandle(h) == h \in 0 .. (Len(registry.type_table) - 1)

QueriesOf(d) == UNION { Range(d.interfaces[i].queries) : i \in DOMAIN d.interfaces }

\* The cache keys the document refers to, and how many references it holds.
DocRoots ==
    {doc.ty.key}
      \cup UNION { { q.args[n].ty.key : n \in DOMAIN q.args } \cup {q.output.key} :
                   q \in QueriesOf(doc) }

RECURSIVE SumRefs(_, _)
SumRefs(qs, n) ==
    IF n = 0 THEN 0 ELSE Len(qs[n].args) + 1 + SumRefs(qs, n - 1)

NumRefs ==
    1 + SumRefs(doc.interfaces[1].queries, Len(doc.interfaces[1].queries))
      + SumRefs(doc.interfaces[2].queries, Len(doc.interfaces[2].queries))

\* The cache keys reachable from a set of keys through the fields.
RECURSIVE Closure(_)
Closure(S) ==
    LET T == S \cup UNION { Range(type_info(k)) : k \in S } IN
    IF T = S THEN S ELSE Closure(T)

Finalized == phase = "finalized"

\* C6: two register calls with equal cache keys return the same handle, the
\* registry holds one entry per cache key, and the finalized table has as
\* many entries as there are distinct cache keys reachable from the
\* document's references.
C6_Deduplicated ==
    /\ \A a, b \in returned : a[1] = b[1] => a[2] = b[2]
    /\ \A i, j \in 1 .. Len(registry.type_table) :
         registry.type_table[i] = registry.type_table[j] => i = j
    /\ Finalized =>
         /\ Len(table) = Cardinality(Closure(DocRoots))
         /\ \A k \in Closure(DocRoots) :
              Cardinality({ h \in 1 .. Len(table) : KeyOf(table[h].id) = k }) = 1

C6_Witness ==
    /\ Finalized
    /\ NumRefs > Len(table)
    /\ Len(table) >= 4
    /\ \E a \in returned : a[1] = "Pair"

\* The description stored for every type names, field by field, the
\* handles of the field types.
DescriptionsClosed ==
    Finalized =>
      \A h \in 1 .. Len(table) :
        LET info == type_info(KeyOf(table[h].id)) IN
        /\ Len(table[h].fields) = Len(info)
        /\ \A n \in 1 .. Len(info) :
             /\ ValidHandle(table[h].fields[n])
             /\ KeyOf(table[h].fields[n]) = info[n]

\* C7: registering types that contain themselves (List) or each other (Ping,
\* Pong) terminates; the finalized table is finite and the entry of such a
\* type refers, in its field, to the type's own handle.
C7_CyclicTypesTerminate ==
    /\ <>(Finalized /\ pass = 2)
    /\ [](Len(registry.type_table) <= Cardinality(TypeKeys))
    /\ []DescriptionsClosed

C7_Witness ==
    /\ Finalized
    /\ \E h \in 1 .. Len(table) :
         /\ KeyOf(table[h].id) = "List"
         /\ table[h].fields[2] = table[h].id
    /\ \E h, g \in 1 .. Len(table) :
         /\ KeyOf(table[h].id) = "Ping"
         /\ KeyOf(table[g].id) = "Pong"
         /\ table[h].fields[1] = table[g].id
         /\ table[g].fields[1] = table[h].id

PortableRef(ty) == ty.form = "portable" /\ ValidHandle(ty.id)

\* C8: once the document is converted and the registry finalized, every
\* interface and view function of the document has been converted, no type
\* reference of the portable document (the runtime-wide record's own type
\* included) is inline, and every handle in the document or in a stored
\* description is the index of an entry of the table.
C8_PortableIsSelfContained ==
    Finalized =>
      /\ PortableRef(pdoc.ty)
      /\ Len(pdoc.interfaces) = Len(doc.interfaces)
      /\ \A i \in DOMAIN pdoc.interfaces :
           /\ Len(pdoc.interfaces[i].queries) = Len(doc.interfaces[i].queries)
           /\ \A j \in DOMAIN pdoc.interfaces[i].queries :
                LET q == pdoc.interfaces[i].queries[j] IN
                /\ PortableRef(q.output)
                /\ \A n \in DOMAIN q.args : PortableRef(q.args[n].ty)
      /\ Len(table) = Len(registry.type_table)
      /\ \A h \in 1 .. Len(table) :
           /\ table[h].id = h - 1
           /\ \A n \in DOMAIN table[h].fields : ValidHandle(table[h].fields[n])

C8_Witness ==
    /\ Finalized
    /\ Len(pdoc.interfaces[1].queries) = 2
    /\ Len(pdoc.interfaces[2].queries) = 1
    /\ \E q \in QueriesOf(pdoc) : q.name = "ping"
    /\ Len(table) >= 7

\* The portable view function p is the view function q with nothing but
\* its type references rewritten to the handles of their cache keys.
OnlyRefsRewritten(q, p) ==
    /\ p.name = q.name
    /\ p.id = q.id
    /\ p.docs = q.docs
    /\ Len(p.args) = Len(q.args)
    /\ \A n \in DOMAIN q.args :
         /\ p.args[n].name = q.args[n].name
         /\ PortableRef(p.args[n].ty)
         /\ KeyOf(p.args[n].ty.id) = q.args[n].ty.key
    /\ PortableRef(p.output)
    /\ KeyOf(p.output.id) = q.output.key

ConvertedSoFar ==
    /\ \A i \in DOMAIN pdoc.interfaces :
         /\ pdoc.interfaces[i].name = doc.interfaces[i].name
         /\ pdoc.interfaces[i].docs = doc.interfaces[i].docs
         /\ Len(pdoc.interfaces[i].queries) = Len(doc.interfaces[i].queries)
         /\ \A j \in DOMAIN pdoc.interfaces[i].queries :
              OnlyRefsRewritten(doc.interfaces[i].queries[j],
                                pdoc.interfaces[i].queries[j])
    /\ \A j \in DOMAIN pdoc.queries :
         OnlyRefsRewritten(doc.interfaces[cursor.i].queries[j], pdoc.queries[j])

\* A step that converts an interface that lists no view function.
ConvertsNoRef ==
    /\ cursor.i \in 1 .. Len(doc.interfaces)
    /\ doc.interfaces[cursor.i].queries = << >>
    /\ Len(pdoc'.interfaces) = Len(pdoc.interfaces) + 1

\* C9: converting a view-function record rewrites only its type references:
\* name, id, docs, the number and order of the args and each arg's name are
\* kept, the n-th portable arg holds the handle of the n-th arg's type; and
\* converting a record without type references leaves the registry as it was.
C9_OnlyTypeRefsRewritten ==
    /\ [](phase # "idle" => ConvertedSoFar)
    /\ [][ConvertsNoRef => (registry' = registry /\ returned' = returned)]_vars
    /\ []((Finalized /\ QueriesOf(doc) = {}) => Len(table) = 1)

C9_Witness ==
    /\ Finalized
    /\ doc.interfaces[1].queries = << >>
    /\ Len(pdoc.interfaces[2].queries) = 2
    /\ pdoc.interfaces[2].queries[1].name = "pair"
    /\ pdoc.interfaces[2].queries[1].args[1].ty.id
         # pdoc.interfaces[2].queries[1].args[2].ty.id
    /\ pdoc.interfaces[2].queries[2].name = "ping"

Built(p) == metadata[p].status = "built"
Entries(p) == metadata[p].group.view_functions

\* C11: in the metadata group of a pallet, the id of every declared view
\* function q is 32 bytes: the pallet's 16-byte prefix followed by q's
\* 16-byte suffix; it is the id ViewFunction::id() computes for q and the id
\* the pallet's dispatcher routes to q.  The group has exactly one entry per
\* declared view function, in declaration order, and carries the name the
\* caller passed.
C11_MetadataIdIsPrefixThenSuffix ==
    \A p \in Pallets :
      Built(p) =>
        /\ metadata[p].group.name = metadata[p].name
        /\ Len(Entries(p)) = Len(view_fns[p])
        /\ \A i \in 1 .. Len(view_fns[p]) :
             LET q == view_fns[p][i]
                 e == Entries(p)[i]
             IN /\ e.name = q.name
                /\ Len(e.id) = IdLen
                /\ SubSeq(e.id, 1, IdHalfLen) = name_hash(p)
                /\ SubSeq(e.id, IdHalfLen + 1, IdLen) = SUFFIX(q)
                /\ (id_call.status = "returned" /\ id_call.pallet = p /\ id_call.fn = i)
                   => ViewFunctionId_into(id_call.id) = e.id
                /\ \A input \in Inputs :
                     WellFormed(q, input) =>
                       dispatch_view_function(p, view_fns[p],
                                              ViewFunctionId_from(e.id), input).invoked
                         = << [pallet |-> p, fn |-> q.name, args |-> input,
                               ret |-> PalletFn(p, q.name, input)] >>

C11_Witness ==
    /\ Built("A")
    /\ Len(view_fns["A"]) = 2
    /\ view_fns["A"][1].name = "sub"
    /\ view_fns["A"][2].name = "has"
    /\ metadata["A"].group.name = "Balances"
    /\ Entries("A")[2].name = "has"
    /\ Entries("A")[2].id = name_hash("A") \o SUFFIX(view_fns["A"][2])
    /\ id_call.status = "returned"
    /\ id_call.pallet = "A"
    /\ id_call.fn = 2

\* The group with the group docs and every view function's docs emptied.
WithoutDocs(group) ==
    [name |-> group.name,
     view_functions |->
         [i \in 1 .. Len(group.view_functions) |->
             [group.view_functions[i] EXCEPT !.docs = << >>]],
     docs |-> << >>]

\* The group the same call assembles in a build with feature setting nd.
GroupUnder(nd, p) ==
    pallet_view_functions_metadata(attached, nd, p, view_fns[p], metadata[p].name).value

StructsUnder(nd, p) ==
    [i \in 1 .. Len(view_fns[p]) |-> expand_view_function(nd, view_fns[p][i])]

\* C12: the "no-metadata-docs" feature affects documentation only.  The
\* group assembled with the feature is the group assembled without it,
\* except that the group docs and the docs of every view function are
\* empty: names, ids, argument names, argument types and output types are
\* the same; without the feature the docs are the declared ones.  The
\* dispatcher over the structs expanded with the feature gives, for every id
\* of the group and every caller input, the outcome of the dispatcher over the
\* structs expanded without it.
C12_DocToggleAffectsOnlyDocs ==
    \A p \in Pallets :
      Built(p) =>
        /\ metadata[p].group =
             IF no_metadata_docs THEN WithoutDocs(GroupUnder(FALSE, p))
             ELSE GroupUnder(FALSE, p)
        /\ WithoutDocs(metadata[p].group) = GroupUnder(TRUE, p)
        /\ no_metadata_docs =>
             /\ metadata[p].group.docs = << >>
             /\ \A i \in 1 .. Len(Entries(p)) : Entries(p)[i].docs = << >>
        /\ ~no_metadata_docs =>
             /\ metadata[p].group.docs = impl_docs(p)
             /\ \A i \in 1 .. Len(Entries(p)) : Entries(p)[i].docs = view_fns[p][i].docs
        /\ \A i \in 1 .. Len(Entries(p)) :
             /\ Entries(p)[i].args =
                  [k \in 1 .. Len(view_fns[p][i].args) |->
                     [name |-> view_fns[p][i].args[k].name,
                      ty |-> MetaType(view_fns[p][i].args[k].ty)]]
             /\ LET never == StructsUnder(TRUE, p)
                    always == StructsUnder(FALSE, p)
                    id == ViewFunctionId_from(Entries(p)[i].id)
                IN \A input \in CallerInputs :
                     dispatch_view_function(p, never, id, input)
                     = dispatch_view_function(p, always, id, input)

C12_Witness ==
    /\ no_metadata_docs
    /\ Built("A")
    /\ Len(view_fns["A"]) = 2
    /\ view_fns["A"][1].name = "sub"
    /\ view_fns["A"][2].name = "get"
    /\ Entries("A")[1].docs = << >>
    /\ Entries("A")[1].args[2].name = "f"
    /\ metadata["A"].group.docs = << >>
    /\ GroupUnder(FALSE, "A").docs = << "A views" >>
    /\ GroupUnder(FALSE, "A").view_functions[1].docs = << "sub doc" >>

\* prefix() fails exactly for a pallet the runtime does not hold.
PrefixFailsOnlyUnattached ==
    \A p \in Pallets :
      /\ ViewFunctionIdPrefix_prefix(attached, p).ok <=> attached[p]
      /\ attached[p] => ViewFunctionIdPrefix_prefix(attached, p).value = name_hash(p)

\* A ViewFunction::id() call on an unattached pallet aborts and yields no
\* id; on an attached pallet it returns an id with the pallet's prefix.
IdCallAbortsUnattached ==
    id_call # NoIdCall =>
      IF attached[id_call.pallet]
      THEN id_call.status = "returned" /\ id_call.id.prefix = name_hash(id_call.pallet)
      ELSE id_call.status = "aborted" /\ id_call.id = NoId

\* No entry of an assembled group belongs to an unattached pallet, and the
\* prefix half of every listed id is the pallet's name_hash.
NoEntryWithoutPrefix ==
    \A p \in Pallets :
      Built(p) =>
        \A i \in 1 .. Len(Entries(p)) :
          /\ attached[p]
          /\ SubSeq(Entries(p)[i].id, 1, IdHalfLen) = name_hash(p)

\* C13 as stated: assembling the metadata group of a pallet the runtime
\* does not hold aborts.
C13_Original_UnattachedAssemblyAborts ==
    /\ PrefixFailsOnlyUnattached
    /\ IdCallAbortsUnattached
    /\ NoEntryWithoutPrefix
    /\ \A p \in Pallets :
         metadata[p].status # "none" =>
           IF attached[p] THEN Built(p) ELSE metadata[p].status = "aborted"

\* C13 amended: prefix() fails only for a pallet the runtime does not hold,
\* and then it panics.  Computing the id of a view function of such a pallet
\* aborts and yields no id; assembling its metadata group aborts and yields
\* no group when the pallet declares at least one view function, and
\* completes with an empty view_functions list (no prefix is computed) when
\* it declares none.  No id and no group entry ever carries a missing or
\* default prefix, and for an attached pallet neither call fails.
C13_PrefixFailureAborts ==
    /\ PrefixFailsOnlyUnattached
    /\ IdCallAbortsUnattached
    /\ NoEntryWithoutPrefix
    /\ \A p \in Pallets :
         metadata[p].status # "none" =>
           IF attached[p] THEN Built(p)
           ELSE IF view_fns[p] # << >>
                THEN metadata[p].status = "aborted" /\ metadata[p].group = NoGroup
                ELSE Built(p) /\ Entries(p) = << >>

C13_Witness ==
    /\ ~attached["B"]
    /\ attached["A"]
    /\ Len(view_fns["B"]) = 2
    /\ metadata["B"].status = "aborted"
    /\ id_call.pallet = "B"
    /\ id_call.status = "aborted"
    /\ Built("A")
    /\ Len(Entries("A")) = 1

\* The suffixes that some id can carry: those of the signatures, and one
\* that no signature hashes to.
Suffixes == { Bytes16(h) : h \in SignatureHashes \cup {0} }

\* The suffixes the dispatcher of pallet p has an arm for.
Routed(p) == { s \in Suffixes : MatchArm(view_fns[p], s) # 0 }

\* The suffixes of the ids listed in the metadata group of pallet p.
Listed(p) == { SubSeq(Entries(p)[i].id, IdHalfLen + 1, IdLen) : i \in 1 .. Len(Entries(p)) }

\* C16: for every pallet whose metadata group was assembled, the suffixes
\* its dispatcher routes are exactly the suffixes of the ids listed in the
\* group: dispatching the recorded id of a listed view function executes
\* that view function (it is never NotFound), and a suffix that is not
\* listed is NotFound.  A pallet that declares no view functions has an
\* empty view_functions list, so that no suffix is listed and its
\* dispatcher returns NotFound for every id.
C16_DispatcherMatchesMetadata ==
    \A p \in Pallets :
      Built(p) =>
        /\ Routed(p) = Listed(p)
        /\ \A i \in 1 .. Len(Entries(p)) :
             LET id == ViewFunctionId_from(Entries(p)[i].id) IN
             \A input \in CallerInputs :
               LET out == dispatch_view_function(p, view_fns[p], id, input) IN
               /\ out.result.kind # "NotFound"
               /\ out.result.kind = "Ok" =>
                    /\ Len(out.invoked) = 1
                    /\ out.invoked[1].fn = Entries(p)[i].name
                    /\ out.invoked[1].pallet = p
        /\ \A id \in Ids :
             id.suffix \notin Listed(p) =>
               \A input \in CallerInputs :
                 dispatch_view_function(p, view_fns[p], id, input)
                   = Outcome(NotFound(id), << >>, << >>)
        /\ view_fns[p] = << >> => (Entries(p) = << >> /\ Listed(p) = {})

C16_Witness ==
    /\ Built("A")
    /\ Built("B")
    /\ view_fns["B"] = << >>
    /\ Entries("B") = << >>
    /\ Len(view_fns["A"]) = 2
    /\ Cardinality(Listed("A")) = 2
    /\ Routed("A") = Listed("A")

(***************************************************************************)
(* Claims about concurrent dispatch (checked under ConcSpec).              *)
(***************************************************************************)
\* The outcome of the call of thread t, run alone.
Alone(t) ==
    dispatch_view_function(threads[t].pallet, view_fns[threads[t].pallet],
                           threads[t].id, threads[t].input)

\* A call that has returned has the outcome of the same call run alone:
\* the result, the invocation made and the bytes in its own output.
OutcomeAsAlone ==
    \A t \in Threads :
      threads[t].pc = "done" =>
        /\ threads[t].result = Alone(t).result
        /\ threads[t].invoked = Alone(t).invoked
        /\ sinks[t] = Alone(t).output

\* No step of a dispatch call changes what the pallets declare or the
\* dispatchers built from it.
RoutingTableUnchanged == view_fns' = view_fns /\ expanded' = expanded

\* C14: dispatch never modifies the routing table, and in every
\* interleaving of the steps of concurrent dispatch calls on distinct ids,
\* each call ends with the outcome it has when run alone: Ok with the same
\* bytes in its own output, NotFound carrying its id, or the decode error.
C14_ConcurrentDispatchIsolated ==
    [] OutcomeAsAlone /\ [][RoutingTableUnchanged]_vars

C14_Witness ==
    /\ threads["t1"].pc = "done"
    /\ threads["t2"].pc = "done"
    /\ threads["t1"].pallet = threads["t2"].pallet
    /\ threads["t1"].id # threads["t2"].id
    /\ threads["t1"].result = ResOk
    /\ threads["t2"].result = ResOk
    /\ sinks["t1"] # sinks["t2"]
    /\ sinks["t1"] # << >>
    /\ sinks["t2"] # << >>

(***************************************************************************)
(* Claims about the registry during a conversion (checked under ConvSpec). *)
(***************************************************************************)
\* The frames of the types whose registration is in flight.
InFlightTypes == { stack[i] : i \in { j \in 1 .. Len(stack) : stack[j].kind = "type" } }

\* Every handle a register call has returned in this pass, and the handle
\* of every type in flight, is the handle the interner holds for that key.
HandlesStable ==
    /\ \A r \in returned : ValidHandle(r[2]) /\ KeyOf(r[2]) = r[1]
    /\ \A f \in InFlightTypes : ValidHandle(f.sym) /\ KeyOf(f.sym) = f.key

\* The description stored at a handle is the description of the type of
\* that handle: field by field, the handle of the field's type.
StoredIsOwnDescription ==
    \A h \in DOMAIN registry.types :
      /\ ValidHandle(h)
      /\ LET info == type_info(KeyOf(h)) IN
         /\ Len(registry.types[h]) = Len(info)
         /\ \A n \in 1 .. Len(info) :
              /\ ValidHandle(registry.types[h][n])
              /\ KeyOf(registry.types[h][n]) = info[n]

\* The finalized table holds, at every handle that was returned, the
\* description stored for it.
ReturnedAreFinal ==
    Finalized =>
      \A r \in returned :
        /\ r[2] + 1 \in 1 .. Len(table)
        /\ table[r[2] + 1].id = r[2]
        /\ r[2] \in DOMAIN registry.types
        /\ table[r[2] + 1].fields = registry.types[r[2]]

\* Within a pass a step keeps every interned key at its handle and every
\* stored description as it is.
RegistryGrows ==
    pass' = pass =>
      /\ Len(registry'.type_table) >= Len(registry.type_table)
      /\ SubSeq(registry'.type_table, 1, Len(registry.type_table)) = registry.type_table
      /\ \A h \in DOMAIN registry.types :
           h \in DOMAIN registry'.types /\ registry'.types[h] = registry.types[h]
      /\ returned \subseteq returned'

\* C15: during a conversion pass the registry only grows and handles are
\* stable.  Once a cache key has a handle, also one handed out while the
\* registration of its type is still in flight, every later register call
\* for that key returns that handle; no interned key and no stored
\* description is removed, moved or replaced; and the description finally
\* stored at a handle is the description of the type of that handle.
C15_RegistryGrowsHandlesStable ==
    [] (HandlesStable /\ StoredIsOwnDescription /\ ReturnedAreFinal)
      /\ [][RegistryGrows]_vars

\* A register call has returned the handle of a type whose own registration
\* is in flight: its description is not stored yet.
C15_Witness ==
    /\ \E f \in InFlightTypes :
         /\ << f.key, f.sym >> \in returned
         /\ f.sym \notin DOMAIN registry.types
         /\ f.sym > 0
    /\ Cardinality(DOMAIN registry.types) >= 2

====
